---- MODULE Spec2Model ----
(***************************************************************************)
(* Model of the unistore storage node core:                                *)
(*   - the transactional request handlers of tikv/server.go (KvGet,        *)
(*     KvPrewrite, KvCommit, KvBatchRollback) over the MVCC store they     *)
(*     call (lock store, write store, latches);                            *)
(*   - the worker / task queue of tikv/raftstore/worker.go.                *)
(* The MVCCStore methods the handlers call are not part of the sources at  *)
(* hand; they are modelled from section 4.1 of the design description.     *)
(***************************************************************************)
EXTENDS Integers, Sequences, FiniteSets, TLC

(***************************************************************************)
(* Bounds of the model.                                                    *)
(***************************************************************************)
MaxTS == 3
MaxMuts == 2
MaxTasks == 3
MaxSplitKeys == 2
MaxBurst == 2

\* worker.go: task types and the capacity of a worker's queue.
taskTypeStop == 0
taskTypeSplitCheck == 2
defaultWorkerCapacity == 128

Keys == {"k1", "k2"}
Values == {"v1"}
TTLs == {1000}
TS == 1..MaxTS
Ops == {"Put", "Del"}

Nil == [type |-> "nil"]
NoLock == [type |-> "nolock"]
NoValue == "<nil>"

Workers == {"w1", "w2"}
TaskTypes == {taskTypeStop, taskTypeSplitCheck}

\* Concurrent prewrite batches, one transaction each.
Batches == {1, 2}

VARIABLES
    lockStore,    \* Lock Store: key -> outstanding lock, or NoLock
    writeStore,   \* Write Store: set of committed write records
    last,         \* the last request served together with its response
    latches,      \* Latch Manager: key hash -> the batch holding it, or 0
    batch,        \* the concurrent prewrite calls: position and local state
    queue,        \* worker -> the buffered channel of tasks
    consumer,     \* worker -> position of the consumer goroutine
    wg,           \* the shared sync.WaitGroup counter
    sent,         \* worker -> the tasks sent on its channel, in order
    events,       \* worker -> calls and returns of runner.run, in order
    splitRun      \* the last call of splitCheckRunner.run: inputs and effects

mvccVars == <<lockStore, writeStore, last>>
latchVars == <<latches, batch>>
workerVars == <<queue, consumer, wg, sent, events>>
splitVars == <<splitRun>>
vars == <<lockStore, writeStore, last, latches, batch, queue, consumer, wg,
          sent, events, splitRun>>

(***************************************************************************)
(* Data model (section 3).                                                 *)
(***************************************************************************)
MvccLock(primary, startTS, ttl, op, value) ==
    [type |-> "lock", primary |-> primary, startTS |-> startTS, ttl |-> ttl,
     op |-> op, value |-> value]

WriteRecord(key, startTS, commitTS, op, value) ==
    [key |-> key, startTS |-> startTS, commitTS |-> commitTS, op |-> op,
     value |-> value]

Mutation(op, key, value) == [op |-> op, key |-> key, value |-> value]

Mutations == {Mutation("Put", k, v) : k \in Keys, v \in Values}
                \cup {Mutation("Del", k, NoValue) : k \in Keys}

\* The primary key of a transaction: the client names the first key it writes.
PrimaryOf(muts) == muts[1].key

\* Non-empty sequences over S of length at most n.
SeqsUpTo(S, n) == UNION {[1..m -> S] : m \in 1..n}

\* The batches a request may carry.
MutationBatches == SeqsUpTo(Mutations, MaxMuts)
KeyBatches == SeqsUpTo(Keys, MaxMuts)

(***************************************************************************)
(* The errors of the MVCC store, as the handlers tell them apart.          *)
(***************************************************************************)
ErrLocked(key, lock) ==
    [type |-> "ErrLocked", Key |-> key, Primary |-> lock.primary,
     StartTS |-> lock.startTS, TTL |-> lock.ttl]

ErrRetryable(msg) == [type |-> "ErrRetryable", msg |-> msg]

ErrOther(msg) == [type |-> "error", msg |-> msg]

(***************************************************************************)
(* server.go: conversion of store errors to the wire's KeyError.           *)
(***************************************************************************)
NoLockInfo == [type |-> "nil"]
LockInfo(key, primary, version, ttl) ==
    [type |-> "LockInfo", Key |-> key, PrimaryLock |-> primary,
     LockVersion |-> version, LockTtl |-> ttl]

KeyError(locked, retryable, abort) ==
    [type |-> "KeyError", Locked |-> locked, Retryable |-> retryable,
     Abort |-> abort]

\* Variant: the lock error is not recognised and falls through to Abort.
convertToKeyError_lockedAsAbort(err) ==
    IF err.type = "ErrRetryable"
    THEN KeyError(NoLockInfo, err.msg, "")
    ELSE KeyError(NoLockInfo, "", "locked")

\* Variant: every error that is not a lock error is reported as Retryable.
convertToKeyError_otherAsRetryable(err) ==
    IF err.type = "ErrLocked"
    THEN KeyError(LockInfo(err.Key, err.Primary, err.StartTS, err.TTL), "", "")
    ELSE KeyError(NoLockInfo, err.msg, "")

\* Variant: a retryable error is reported as Abort as well.
convertToKeyError_retryableAndAbort(err) ==
    IF err.type = "ErrLocked"
    THEN KeyError(LockInfo(err.Key, err.Primary, err.StartTS, err.TTL), "", "")
    ELSE IF err.type = "ErrRetryable"
    THEN KeyError(NoLockInfo, err.msg, err.msg)
    ELSE KeyError(NoLockInfo, "", err.msg)

convertToKeyError(err) ==
    IF err.type = "ErrLocked"
    THEN KeyError(LockInfo(err.Key, err.Primary, err.StartTS, err.TTL), "", "")
    ELSE IF err.type = "ErrRetryable"
    THEN KeyError(NoLockInfo, err.msg, "")
    ELSE KeyError(NoLockInfo, "", err.msg)

RECURSIVE convertToKeyErrorsFrom(_, _)
convertToKeyErrorsFrom(errs, i) ==
    IF i > Len(errs) THEN <<>>
    ELSE IF errs[i] # Nil
         THEN <<convertToKeyError(errs[i])>> \o convertToKeyErrorsFrom(errs, i + 1)
         ELSE convertToKeyErrorsFrom(errs, i + 1)

\* Variant: the loop stops after the first error it converts.
convertToKeyErrors_firstOnly(errs) ==
    LET all == convertToKeyErrorsFrom(errs, 1)
    IN  IF all = <<>> THEN <<>> ELSE <<all[1]>>

convertToKeyErrors(errs) == convertToKeyErrorsFrom(errs, 1)

\* A Pair of the store and the KvPair of the wire.
NoKey == "<nokey>"
Pair(key, value, err) == [Key |-> key, Value |-> value, Err |-> err]
KvPair(key, value, error) == [Key |-> key, Value |-> value, Error |-> error]

convertToPbPair(p) ==
    IF p.Err = Nil
    THEN KvPair(p.Key, p.Value, Nil)
    ELSE KvPair(NoKey, NoValue, convertToKeyError(p.Err))

\* Variant: the pairs that carry an error are left out.
convertToPbPairs_dropErrors(pairs) ==
    SelectSeq([i \in 1..Len(pairs) |-> convertToPbPair(pairs[i])],
              LAMBDA kv : kv.Error = Nil)

convertToPbPairs(pairs) ==
    [i \in 1..Len(pairs) |-> convertToPbPair(pairs[i])]

\* The limit on the size of a request, and the requests' sizes of the model.
requestMaxSize == 6 * 1024 * 1024

OrdinarySize == 64
RequestSizes == {OrdinarySize, requestMaxSize - 1, requestMaxSize,
                 requestMaxSize + 1}

RaftEntryTooLarge == [type |-> "RaftEntryTooLarge"]

checkRequestSize(size) ==
    IF size >= requestMaxSize THEN RaftEntryTooLarge ELSE Nil

checkRequestContext(ctx) == Nil

checkRequest(ctx, size) ==
    IF checkRequestContext(ctx) # Nil
    THEN checkRequestContext(ctx)
    ELSE checkRequestSize(size)

\* The key range [startKey, endKey) of the region the node serves, as loaded
\* from the node's meta data; keys are ordered by their rank.
KeyOrder == <<"k1", "k2">>
KeyRank == [k \in Keys |-> CHOOSE i \in 1..Len(KeyOrder) : KeyOrder[i] = k]
Region == [startKey |-> "k1", endKey |-> "k2"]

InRegionRange(key) ==
    KeyRank[Region.startKey] <= KeyRank[key] /\ KeyRank[key] < KeyRank[Region.endKey]

checkKeyInRegion(key) == TRUE

\* panic(msg): the process is terminated.
Panic(msg) == [op |-> "panic", msg |-> msg]

(***************************************************************************)
(* MVCC store (section 4.1).                                               *)
(***************************************************************************)
\* Scan of the write records of key from readTS downwards: the value of the
\* newest record with commitTS <= readTS, NoValue when there is none.
RECURSIVE ScanWrites(_, _, _)
ScanWrites(ws, key, ts) ==
    IF ts < 1 THEN NoValue
    ELSE IF \E w \in ws : w.key = key /\ w.commitTS = ts
         THEN (CHOOSE w \in ws : w.key = key /\ w.commitTS = ts).value
         ELSE ScanWrites(ws, key, ts - 1)

Get(ls, ws, key, readTS) ==
    IF ls[key] # NoLock /\ ls[key].startTS <= readTS
    THEN [val |-> NoValue, err |-> ErrLocked(key, ls[key])]
    ELSE [val |-> ScanWrites(ws, key, readTS), err |-> Nil]

\* BatchGet: the Get rule for each key on its own, one Pair per key.
BatchGet(ls, ws, keys, readTS) ==
    [i \in 1..Len(keys) |->
        LET r == Get(ls, ws, keys[i], readTS)
        IN  Pair(keys[i], r.val, r.err)]

\* Scan: the Get rule on the keys from startKey on in ascending order, up to
\* endKey (no bound when endKey is NoKey) or limit results; a key the Get rule
\* finds nothing for is not a result.
RECURSIVE scanFrom(_, _, _, _, _, _)
scanFrom(ls, ws, i, endKey, limit, readTS) ==
    IF \/ i > Len(KeyOrder)
       \/ limit <= 0
       \/ (endKey # NoKey /\ i >= KeyRank[endKey])
    THEN <<>>
    ELSE LET r == Get(ls, ws, KeyOrder[i], readTS)
         IN  IF r.err = Nil /\ r.val = NoValue
             THEN scanFrom(ls, ws, i + 1, endKey, limit, readTS)
             ELSE <<Pair(KeyOrder[i], r.val, r.err)>>
                      \o scanFrom(ls, ws, i + 1, endKey, limit - 1, readTS)

Scan(ls, ws, startKey, endKey, limit, readTS) ==
    scanFrom(ls, ws, KeyRank[startKey], endKey, limit, readTS)

\* The check of one mutation of Prewrite, under the key's latch.
prewriteCheck(ls, ws, m, startTS) ==
    IF ls[m.key] # NoLock /\ ls[m.key].startTS # startTS
    THEN ErrLocked(m.key, ls[m.key])
    ELSE IF \E w \in ws : w.key = m.key /\ w.commitTS >= startTS
    THEN ErrRetryable("write conflict")
    ELSE Nil

prewriteInstall(ls, m, primary, startTS, ttl) ==
    [ls EXCEPT ![m.key] = MvccLock(primary, startTS, ttl, m.op, m.value)]

\* Variant: the batch stops at its first failing mutation.
RECURSIVE prewriteFrom_failFast(_, _, _, _, _, _, _)
prewriteFrom_failFast(ls, ws, muts, i, primary, startTS, ttl) ==
    IF i > Len(muts) THEN [ls |-> ls, errs |-> <<>>]
    ELSE LET err == prewriteCheck(ls, ws, muts[i], startTS)
         IN  IF err # Nil
             THEN [ls |-> ls,
                   errs |-> <<err>> \o [j \in 1..(Len(muts) - i) |-> Nil]]
             ELSE LET rest == prewriteFrom_failFast(
                                  prewriteInstall(ls, muts[i], primary, startTS,
                                                  ttl),
                                  ws, muts, i + 1, primary, startTS, ttl)
                  IN  [ls |-> rest.ls, errs |-> <<Nil>> \o rest.errs]

RECURSIVE prewriteFrom(_, _, _, _, _, _, _)
prewriteFrom(ls, ws, muts, i, primary, startTS, ttl) ==
    IF i > Len(muts) THEN [ls |-> ls, errs |-> <<>>]
    ELSE LET err == prewriteCheck(ls, ws, muts[i], startTS)
             ls1 == IF err = Nil
                    THEN prewriteInstall(ls, muts[i], primary, startTS, ttl)
                    ELSE ls
             rest == prewriteFrom(ls1, ws, muts, i + 1, primary, startTS, ttl)
         IN  [ls |-> rest.ls, errs |-> <<err>> \o rest.errs]

Prewrite(ls, ws, muts, primary, startTS, ttl) ==
    prewriteFrom(ls, ws, muts, 1, primary, startTS, ttl)

\* A write record is keyed by (key, commitTS): a put replaces the record there.
putWrite(ws, w) ==
    {x \in ws : ~(x.key = w.key /\ x.commitTS = w.commitTS)} \cup {w}

\* Variant: the lock is converted whatever commitTS is.
commitKey_noTsCheck(ls, ws, key, startTS, commitTS) ==
    IF ls[key] # NoLock /\ ls[key].startTS = startTS
    THEN [ls |-> [ls EXCEPT ![key] = NoLock],
          ws |-> putWrite(ws, WriteRecord(key, startTS, commitTS,
                                         ls[key].op, ls[key].value)),
          err |-> Nil]
    ELSE IF \E w \in ws : w.key = key /\ w.startTS = startTS
    THEN [ls |-> ls, ws |-> ws, err |-> Nil]
    ELSE [ls |-> ls, ws |-> ws, err |-> ErrOther("lock not found")]

\* Commit of one key, under the key's latch.  A lock of the transaction is
\* converted to a write record at commitTS, which must exceed startTS.
commitKey(ls, ws, key, startTS, commitTS) ==
    IF ls[key] # NoLock /\ ls[key].startTS = startTS
    THEN IF commitTS <= startTS
         THEN [ls |-> ls, ws |-> ws, err |-> ErrOther("invalid commitTS")]
         ELSE [ls |-> [ls EXCEPT ![key] = NoLock],
               ws |-> putWrite(ws, WriteRecord(key, startTS, commitTS,
                                              ls[key].op, ls[key].value)),
               err |-> Nil]
    ELSE IF \E w \in ws : w.key = key /\ w.startTS = startTS
    THEN [ls |-> ls, ws |-> ws, err |-> Nil]
    ELSE [ls |-> ls, ws |-> ws, err |-> ErrOther("lock not found")]

RECURSIVE commitFrom(_, _, _, _, _, _)
commitFrom(ls, ws, keys, i, startTS, commitTS) ==
    IF i > Len(keys) THEN [ls |-> ls, ws |-> ws, err |-> Nil]
    ELSE LET r == commitKey(ls, ws, keys[i], startTS, commitTS)
         IN  IF r.err # Nil THEN r
             ELSE commitFrom(r.ls, r.ws, keys, i + 1, startTS, commitTS)

Commit(ls, ws, keys, startTS, commitTS) ==
    commitFrom(ls, ws, keys, 1, startTS, commitTS)

rollbackKey(ls, key, startTS) ==
    IF ls[key] # NoLock /\ ls[key].startTS = startTS
    THEN [ls EXCEPT ![key] = NoLock]
    ELSE ls

RECURSIVE rollbackFrom(_, _, _, _)
rollbackFrom(ls, keys, i, startTS) ==
    IF i > Len(keys) THEN ls
    ELSE rollbackFrom(rollbackKey(ls, keys[i], startTS), keys, i + 1, startTS)

Rollback(ls, ws, keys, startTS) ==
    [ls |-> rollbackFrom(ls, keys, 1, startTS), ws |-> ws, err |-> Nil]

(***************************************************************************)
(* server.go: the request handlers.  Each yields the response and the      *)
(* stores after the call.                                                  *)
(***************************************************************************)
GetResponse(error, value) ==
    [RegionError |-> Nil, Error |-> error, Value |-> value]

\* Variant: the error of the store is dropped and only the value returned.
KvGetResponse_ignoreErr(ls, ws, key, version) ==
    GetResponse(Nil, Get(ls, ws, key, version).val)

KvGetResponse(ls, ws, key, version) ==
    LET r == Get(ls, ws, key, version)
    IN  IF r.err # Nil
        THEN GetResponse(convertToKeyError(r.err), NoValue)
        ELSE GetResponse(Nil, r.val)

KvPrewriteResponse(errs) ==
    [RegionError |-> Nil, Errors |-> convertToKeyErrors(errs)]

\* Variant: the error is converted without the nil check.
KvCommitResponse_alwaysError(err) ==
    [RegionError |-> Nil,
     Error |-> KeyError(NoLockInfo, "", IF err # Nil THEN "error" ELSE "<nil>")]

KvCommitResponse(err) ==
    [RegionError |-> Nil,
     Error |-> IF err # Nil THEN convertToKeyError(err) ELSE Nil]

\* Variant: the nil check is inverted.
KvBatchRollbackResponse_invertedCheck(err) ==
    [RegionError |-> Nil,
     Error |-> IF err = Nil THEN KeyError(NoLockInfo, "", "<nil>") ELSE Nil]

KvBatchRollbackResponse(err) ==
    [RegionError |-> Nil,
     Error |-> IF err # Nil THEN convertToKeyError(err) ELSE Nil]

KvBatchGetResponse(pairs) ==
    [RegionError |-> Nil, Pairs |-> convertToPbPairs(pairs)]

KvScanResponse(pairs) ==
    [RegionError |-> Nil, Pairs |-> convertToPbPairs(pairs)]

\* Server.endKey, which NewServer leaves unset, and the limits of a scan.
svrEndKey == NoKey
Limits == {1, 2}

NoRequest == [op |-> "none"]
NoRun == [pc |-> "none"]

IdleBatch == [pc |-> "idle"]
NewConsumer == [pc |-> "new"]

Init ==
    /\ lockStore = [k \in Keys |-> NoLock]
    /\ writeStore = {}
    /\ last = NoRequest
    /\ latches = [k \in Keys |-> 0]
    /\ batch = [b \in Batches |-> IdleBatch]
    /\ queue = [w \in Workers |-> <<>>]
    /\ consumer = [w \in Workers |-> NewConsumer]
    /\ wg = 0
    /\ sent = [w \in Workers |-> <<>>]
    /\ events = [w \in Workers |-> <<>>]
    /\ splitRun = NoRun

\* A handler runs from its entry to its return statement as one step; the
\* response is then handed back to the caller (Reply) before the next call.
KvGet ==
    /\ last = NoRequest
    /\ \E key \in Keys, version \in TS :
           last' = IF ~checkKeyInRegion(key)
                   THEN Panic("KvGet: key not in region")
                   ELSE [op |-> "get", key |-> key, version |-> version,
                         resp |-> KvGetResponse(lockStore, writeStore, key,
                                                version)]
    /\ UNCHANGED <<lockStore, writeStore, latchVars, workerVars, splitVars>>

KvScan ==
    /\ last = NoRequest
    /\ \E startKey \in Keys, limit \in Limits, version \in TS :
           last' = IF ~checkKeyInRegion(startKey)
                   THEN Panic("KvScan: startKey not in region")
                   ELSE [op |-> "scan", startKey |-> startKey, limit |-> limit,
                         version |-> version,
                         resp |-> KvScanResponse(
                                      Scan(lockStore, writeStore, startKey,
                                           svrEndKey, limit, version))]
    /\ UNCHANGED <<lockStore, writeStore, latchVars, workerVars, splitVars>>

KvBatchGet ==
    /\ last = NoRequest
    /\ \E keys \in KeyBatches, version \in TS :
           last' = IF \E i \in 1..Len(keys) : ~checkKeyInRegion(keys[i])
                   THEN Panic("KvBatchGet: key not in region")
                   ELSE [op |-> "batchget", keys |-> keys, version |-> version,
                         resp |-> KvBatchGetResponse(
                                      BatchGet(lockStore, writeStore, keys,
                                               version))]
    /\ UNCHANGED <<lockStore, writeStore, latchVars, workerVars, splitVars>>

\* KvPrewrite for requests whose sizes are drawn from sizes.
KvPrewriteOfSize(sizes) ==
    /\ last = NoRequest
    /\ \E muts \in MutationBatches, startTS \in TS, ttl \in TTLs, size \in sizes :
           IF \E i \in 1..Len(muts) : ~checkKeyInRegion(muts[i].key)
           THEN /\ last' = Panic("KvPrewrite: key not in region")
                /\ UNCHANGED lockStore
           ELSE LET primary == PrimaryOf(muts)
                    r == Prewrite(lockStore, writeStore, muts, primary, startTS,
                                  ttl)
                IN  /\ lockStore' = r.ls
                    /\ last' = [op |-> "prewrite", muts |-> muts,
                                primary |-> primary, startTS |-> startTS,
                                ttl |-> ttl, size |-> size,
                                resp |-> KvPrewriteResponse(r.errs)]
    /\ UNCHANGED <<writeStore, latchVars, workerVars, splitVars>>

KvPrewrite == KvPrewriteOfSize({OrdinarySize})

KvCommit ==
    /\ last = NoRequest
    /\ \E keys \in KeyBatches, startTS \in TS, commitTS \in TS :
           IF \E i \in 1..Len(keys) : ~checkKeyInRegion(keys[i])
           THEN /\ last' = Panic("KvCommit: key not in region")
                /\ UNCHANGED <<lockStore, writeStore>>
           ELSE LET r == Commit(lockStore, writeStore, keys, startTS, commitTS)
                IN  /\ lockStore' = r.ls
                    /\ writeStore' = r.ws
                    /\ last' = [op |-> "commit", keys |-> keys,
                                startTS |-> startTS, commitTS |-> commitTS,
                                resp |-> KvCommitResponse(r.err)]
    /\ UNCHANGED <<latchVars, workerVars, splitVars>>

KvBatchRollback ==
    /\ last = NoRequest
    /\ \E keys \in KeyBatches, startTS \in TS :
           LET r == Rollback(lockStore, writeStore, keys, startTS)
           IN  /\ lockStore' = r.ls
               /\ writeStore' = r.ws
               /\ last' = [op |-> "rollback", keys |-> keys, startTS |-> startTS,
                           resp |-> KvBatchRollbackResponse(r.err)]
    /\ UNCHANGED <<latchVars, workerVars, splitVars>>

\* The response reaches the caller; after a panic there is no process left.
Reply ==
    /\ last # NoRequest
    /\ last.op # "panic"
    /\ last' = NoRequest
    /\ UNCHANGED <<lockStore, writeStore, latchVars, workerVars, splitVars>>

Next == KvGet \/ KvPrewrite \/ KvCommit \/ KvBatchRollback \/ Reply

Spec == Init /\ [][Next]_vars

\* The batched reads, over the stores that prewrites and commits build.
ReadNext == KvScan \/ KvBatchGet \/ KvPrewrite \/ KvCommit \/ Reply

SpecRead == Init /\ [][ReadNext]_vars

\* Prewrite requests of every size, the oversized ones included.
KvPrewriteAnySize == KvPrewriteOfSize(RequestSizes)

SizeNext == KvPrewriteAnySize \/ KvCommit \/ Reply

SpecSize == Init /\ [][SizeNext]_vars

(***************************************************************************)
(* Latches: concurrent Prewrite calls.  Each call walks its mutations; for  *)
(* each it acquires the latch of the key, checks, installs the lock and    *)
(* releases the latch (section 4.1).  The check and the write of the lock  *)
(* are separate steps, so that only the latch keeps them together.         *)
(***************************************************************************)
StartTSOf(b) == b

hashVal(key) == key

\* Variant: a latch is handed out whether or not it is held.
latchFree_never(lt, h) == TRUE

latchFree(lt, h) == lt[h] = 0

AcquireLatches(lt, b, hashVals) ==
    [h \in DOMAIN lt |-> IF h \in hashVals THEN b ELSE lt[h]]

ReleaseLatches(lt, b, hashVals) ==
    [h \in DOMAIN lt |-> IF h \in hashVals /\ lt[h] = b THEN 0 ELSE lt[h]]

PrewriteBegin(b) ==
    /\ batch[b].pc = "idle"
    /\ \E muts \in MutationBatches, ttl \in TTLs :
           batch' = [batch EXCEPT ![b] =
                        [pc |-> "acquire", muts |-> muts, ttl |-> ttl, i |-> 1,
                         err |-> Nil, errs |-> <<>>]]
    /\ UNCHANGED <<mvccVars, latches, workerVars, splitVars>>

PrewriteAcquire(b) ==
    /\ batch[b].pc = "acquire"
    /\ LET h == hashVal(batch[b].muts[batch[b].i].key)
       IN  /\ latchFree(latches, h)
           /\ latches' = AcquireLatches(latches, b, {h})
    /\ batch' = [batch EXCEPT ![b].pc = "check"]
    /\ UNCHANGED <<mvccVars, workerVars, splitVars>>

PrewriteCheck(b) ==
    /\ batch[b].pc = "check"
    /\ batch' = [batch EXCEPT
                    ![b].err = prewriteCheck(lockStore, writeStore,
                                   batch[b].muts[batch[b].i], StartTSOf(b)),
                    ![b].pc = "install"]
    /\ UNCHANGED <<mvccVars, latches, workerVars, splitVars>>

PrewriteInstall(b) ==
    /\ batch[b].pc = "install"
    /\ lockStore' = IF batch[b].err = Nil
                    THEN prewriteInstall(lockStore, batch[b].muts[batch[b].i],
                             PrimaryOf(batch[b].muts), StartTSOf(b), batch[b].ttl)
                    ELSE lockStore
    /\ batch' = [batch EXCEPT ![b].errs = Append(@, batch[b].err),
                              ![b].pc = "release"]
    /\ UNCHANGED <<writeStore, last, latches, workerVars, splitVars>>

PrewriteRelease(b) ==
    /\ batch[b].pc = "release"
    /\ latches' = ReleaseLatches(latches, b,
                      {hashVal(batch[b].muts[batch[b].i].key)})
    /\ batch' = [batch EXCEPT
                    ![b].pc = IF batch[b].i = Len(batch[b].muts)
                              THEN "done" ELSE "acquire",
                    ![b].i = IF batch[b].i = Len(batch[b].muts)
                             THEN @ ELSE @ + 1]
    /\ UNCHANGED <<mvccVars, workerVars, splitVars>>

LatchNext ==
    \E b \in Batches :
        \/ PrewriteBegin(b)
        \/ PrewriteAcquire(b)
        \/ PrewriteCheck(b)
        \/ PrewriteInstall(b)
        \/ PrewriteRelease(b)

SpecLatch == Init /\ [][LatchNext]_vars

(***************************************************************************)
(* Batched mutation calls (Prewrite, Commit, Rollback) that take the       *)
(* latches of all their keys through LatchHandle before they mutate, and   *)
(* give them back afterwards.                                              *)
(***************************************************************************)
MutationOps == {"Prewrite", "Commit", "Rollback"}

\* Variant: the latches are taken in the order of the request's keys.
sortedHashVals_requestOrder(keys) ==
    SelectSeq(keys, LAMBDA k : TRUE)

\* The hash values of the keys of a batch in ascending order.
sortedHashVals(keys) ==
    SelectSeq(KeyOrder,
              LAMBDA k : \E i \in 1..Len(keys) : hashVal(keys[i]) = hashVal(k))

\* A latch the call already holds is not waited for.
latchFreeFor(lt, b, h) == latchFree(lt, h) \/ lt[h] = b

MutationBegin(b) ==
    /\ batch[b].pc = "idle"
    /\ \E op \in MutationOps, keys \in KeyBatches :
           batch' = [batch EXCEPT ![b] =
                        [pc |-> "latching", op |-> op, keys |-> keys,
                         hashVals |-> sortedHashVals(keys), n |-> 0]]
    /\ UNCHANGED <<mvccVars, latches, workerVars, splitVars>>

\* AcquireLatches: the next latch in order, waiting while another call has it.
LatchAcquireNext(b) ==
    /\ batch[b].pc = "latching"
    /\ LET h == batch[b].hashVals[batch[b].n + 1]
       IN  /\ latchFreeFor(latches, b, h)
           /\ latches' = AcquireLatches(latches, b, {h})
    /\ batch' = [batch EXCEPT
                    ![b].n = @ + 1,
                    ![b].pc = IF batch[b].n + 1 = Len(batch[b].hashVals)
                              THEN "mutating" ELSE "latching"]
    /\ UNCHANGED <<mvccVars, workerVars, splitVars>>

\* The mutation itself, under all latches of the call.
MutationApply(b) ==
    /\ batch[b].pc = "mutating"
    /\ batch' = [batch EXCEPT ![b].pc = "unlatching"]
    /\ UNCHANGED <<mvccVars, latches, workerVars, splitVars>>

LatchReleaseAll(b) ==
    /\ batch[b].pc = "unlatching"
    /\ latches' = ReleaseLatches(latches, b,
                      {batch[b].hashVals[i] : i \in 1..Len(batch[b].hashVals)})
    /\ batch' = [batch EXCEPT ![b].pc = "finished"]
    /\ UNCHANGED <<mvccVars, workerVars, splitVars>>

BatchLatchNext ==
    \E b \in Batches :
        \/ MutationBegin(b)
        \/ LatchAcquireNext(b)
        \/ MutationApply(b)
        \/ LatchReleaseAll(b)

\* A call that can take a step takes it in the end: the caller's thread is
\* scheduled.
SpecBatchLatch ==
    /\ Init
    /\ [][BatchLatchNext]_vars
    /\ \A b \in Batches :
           WF_vars(LatchAcquireNext(b) \/ MutationApply(b) \/ LatchReleaseAll(b))

(***************************************************************************)
(* worker.go: a worker is a buffered channel of tasks and one consumer     *)
(* goroutine that hands each task to the runner until it receives a stop.  *)
(***************************************************************************)
newTask(tp, data) == [tp |-> tp, data |-> data]

\* Variant: the channel hands out its newest element.
chanRecv_newest(q) ==
    [task |-> q[Len(q)], rest |-> SubSeq(q, 1, Len(q) - 1)]

\* Variant: a receive takes the next task off the channel as well.
chanRecv_skipOne(q) ==
    [task |-> Head(q), rest |-> IF Len(q) > 1 THEN Tail(Tail(q)) ELSE Tail(q)]

\* task := <-w.receiver
chanRecv(q) == [task |-> Head(q), rest |-> Tail(q)]

\* Variant: the loop compares with another task type.
isStop_wrongType(t) == t.tp = taskTypeSplitCheck + 1

\* task.tp == taskTypeStop
isStop(t) == t.tp = taskTypeStop

\* Variant: the consumer leaves without telling the wait group.
wgDone_forgotten(n) == n

\* w.wg.Add(1) and the deferred w.wg.Done()
wgAdd(n, delta) == n + delta
wgDone(n) == wgAdd(n, -1)

\* Variant: a send goes through whether or not the buffer is full.
chanFull_never(q) == FALSE

\* The buffer of make(chan task, defaultWorkerCapacity) is full.
chanFull(q) == Len(q) >= defaultWorkerCapacity

\* w.scheduler <- t
chanSend(q, t) == Append(q, t)

\* A producer sends on w.scheduler; the send blocks while the buffer is full.
\* The producers send n tasks at most, of the kinds in types.
scheduleOf(w, types, n) ==
    /\ Len(sent[w]) < n
    /\ ~chanFull(queue[w])
    /\ \E tp \in types :
           LET t == newTask(tp, Len(sent[w]) + 1)
           IN  /\ queue' = [queue EXCEPT ![w] = chanSend(@, t)]
               /\ sent' = [sent EXCEPT ![w] = Append(@, t)]
    /\ UNCHANGED <<mvccVars, latchVars, splitVars, consumer, wg, events>>

schedule(w) == scheduleOf(w, TaskTypes, MaxTasks)

\* w.wg.Add(1); go func() { ... }()
\* A worker has a single consumer loop: start is called once per worker.
start(w) ==
    /\ consumer[w].pc = "new"
    /\ wg' = wgAdd(wg, 1)
    /\ consumer' = [consumer EXCEPT ![w] = [pc |-> "recv"]]
    /\ UNCHANGED <<mvccVars, latchVars, splitVars, queue, sent, events>>

\* One turn of the loop up to the call of runner.run, or the return on stop
\* with the deferred w.wg.Done().
consumerRecv(w) ==
    /\ consumer[w].pc = "recv"
    /\ queue[w] # <<>>
    /\ LET r == chanRecv(queue[w])
       IN  /\ queue' = [queue EXCEPT ![w] = r.rest]
           /\ IF isStop(r.task)
              THEN /\ consumer' = [consumer EXCEPT ![w] = [pc |-> "exited"]]
                   /\ wg' = wgDone(wg)
                   /\ UNCHANGED events
              ELSE /\ consumer' = [consumer EXCEPT
                                      ![w] = [pc |-> "run", task |-> r.task]]
                   /\ events' = [events EXCEPT
                                    ![w] = Append(@, [ev |-> "call",
                                                      task |-> r.task])]
                   /\ UNCHANGED wg
    /\ UNCHANGED <<mvccVars, latchVars, splitVars, sent>>

\* runner.run(task) returns.
runReturn(w) ==
    /\ consumer[w].pc = "run"
    /\ events' = [events EXCEPT
                     ![w] = Append(@, [ev |-> "return",
                                       task |-> consumer[w].task])]
    /\ consumer' = [consumer EXCEPT ![w] = [pc |-> "recv"]]
    /\ UNCHANGED <<mvccVars, latchVars, splitVars, queue, wg, sent>>

WorkerNext ==
    \E w \in Workers :
        \/ schedule(w)
        \/ start(w)
        \/ consumerRecv(w)
        \/ runReturn(w)

SpecWorker == Init /\ [][WorkerNext]_vars

\* One worker whose producers send more tasks than its buffer holds.
scheduleBurst(w) ==
    scheduleOf(w, {taskTypeSplitCheck}, defaultWorkerCapacity + MaxBurst)

QueueWorker == "w1"

QueueNext ==
    \/ scheduleBurst(QueueWorker)
    \/ start(QueueWorker)
    \/ consumerRecv(QueueWorker)
    \/ runReturn(QueueWorker)

SpecQueue == Init /\ [][QueueNext]_vars

\* The consumer goroutine is scheduled whenever it can receive, and every
\* call of runner.run returns.
SpecWorkerFair ==
    /\ Init
    /\ [][WorkerNext]_vars
    /\ \A w \in Workers : WF_vars(consumerRecv(w)) /\ WF_vars(runReturn(w))

(***************************************************************************)
(* worker.go: splitCheckRunner.  The checker host, the key encoding and    *)
(* the router are outside the runner: the host's answers and the outcome   *)
(* of router.send are inputs of a call of run.                             *)
(***************************************************************************)
CheckPolicy_SCAN == "SCAN"
CheckPolicy_APPROXIMATE == "APPROXIMATE"
Policies == {CheckPolicy_SCAN, CheckPolicy_APPROXIMATE}

MsgTypeSplitRegion == "MsgTypeSplitRegion"
EmptyCallback == "EmptyCallback"

\* Keys of the engine carry the data prefix; OriginKey strips it.
RawKeys == {"a", "b"}
DataPrefix == "z"
RawKey(k) == [prefix |-> "", key |-> k]
DataKey(k) == [prefix |-> DataPrefix, key |-> k]

\* Variant: the key is handed on as it is.
OriginKey_identity(key) == key

OriginKey(key) == RawKey(key.key)

RegionIds == {1, 2}
Epochs == {1, 2}
Regions ==
    [Id : RegionIds, StartKey : {"a"}, EndKey : {"c"}, RegionEpoch : Epochs]

EncStartKey(region) == DataKey(region.StartKey)
EncEndKey(region) == DataKey(region.EndKey)

splitCheckTask(region, autoSplit, policy) ==
    [region |-> region, autoSplit |-> autoSplit, policy |-> policy]

SplitCheckTasks ==
    {newTask(taskTypeSplitCheck, splitCheckTask(r, a, p)) :
        r \in Regions, a \in BOOLEAN, p \in Policies}

\* The answers of a checker host: skip(), policy() and approximateSplitKeys().
KeysResult(keys, err) == [keys |-> keys, err |-> err]

ApproximateResults ==
    {KeysResult(<<>>, ErrOther("approximate failed"))}
        \cup {KeysResult(ks, Nil) :
                 ks \in SeqsUpTo({DataKey(k) : k \in RawKeys}, MaxSplitKeys)
                            \cup {<<>>}}

Hosts == [skip : BOOLEAN, policy : Policies, approximate : ApproximateResults]

SendResults == {Nil, ErrOther("send failed")}

\* scanSplitKeys is a place holder: no key, no error.
scanSplitKeys(host, region, startKey, endKey) == KeysResult(<<>>, Nil)

ScanCall(startKey, endKey) ==
    [fn |-> "scanSplitKeys", startKey |-> startKey, endKey |-> endKey]

\* The two cases of the switch on host.policy(): the keys found, whether the
\* run is given up, and the calls made on the way.
scanPolicyKeys(host, region, startKey, endKey) ==
    LET r == scanSplitKeys(host, region, startKey, endKey)
    IN  [keys |-> IF r.err # Nil THEN <<>> ELSE r.keys,
         failed |-> r.err # Nil,
         calls |-> <<ScanCall(startKey, endKey)>>]

\* Variant: a failed estimate gives the run up at once.
approximatePolicyKeys_noFallback(host, region, startKey, endKey) ==
    LET a == host.approximate
    IN  [keys |-> IF a.err # Nil THEN <<>>
                  ELSE [i \in 1..Len(a.keys) |-> OriginKey(a.keys[i])],
         failed |-> a.err # Nil,
         calls |-> <<[fn |-> "approximateSplitKeys"]>>]

approximatePolicyKeys(host, region, startKey, endKey) ==
    LET a == host.approximate
    IN  IF a.err # Nil
        THEN LET r == scanSplitKeys(host, region, startKey, endKey)
             IN  [keys |-> IF r.err # Nil THEN <<>> ELSE r.keys,
                  failed |-> r.err # Nil,
                  calls |-> <<[fn |-> "approximateSplitKeys"],
                              ScanCall(startKey, endKey)>>]
        ELSE [keys |-> [i \in 1..Len(a.keys) |-> OriginKey(a.keys[i])],
              failed |-> FALSE,
              calls |-> <<[fn |-> "approximateSplitKeys"]>>]

Msg(type, regionId, data) == [Type |-> type, RegionID |-> regionId, Data |-> data]

MsgSplitRegion(regionEpoch, splitKeys, callback) ==
    [RegionEpoch |-> regionEpoch, SplitKeys |-> splitKeys, Callback |-> callback]

\* Variant: the message is sent whatever the number of keys.
needSend_always(keys) == TRUE

needSend(keys) == Len(keys) # 0

\* run(t) with the host built for the task: the messages handed to
\* router.send and the calls made.
run(t, host) ==
    LET region == t.data.region
        startKey == EncStartKey(region)
        endKey == EncEndKey(region)
        found == IF host.policy = CheckPolicy_SCAN
                 THEN scanPolicyKeys(host, region, startKey, endKey)
                 ELSE approximatePolicyKeys(host, region, startKey, endKey)
    IN  IF host.skip
        THEN [sends |-> <<>>, calls |-> <<>>, outcome |-> "skipped"]
        ELSE IF found.failed
        THEN [sends |-> <<>>, calls |-> found.calls, outcome |-> "failed"]
        ELSE IF needSend(found.keys)
        THEN [sends |-> <<[regionId |-> region.Id,
                           msg |-> Msg(MsgTypeSplitRegion, region.Id,
                                       MsgSplitRegion(region.RegionEpoch,
                                                      found.keys,
                                                      EmptyCallback))]>>,
              calls |-> found.calls, outcome |-> "sent"]
        ELSE [sends |-> <<>>, calls |-> found.calls, outcome |-> "no key"]

\* One call of run, from its entry to its return; sendErr is what router.send
\* answers if it is called.
SplitCheckRun ==
    \E t \in SplitCheckTasks, host \in Hosts, sendErr \in SendResults :
        /\ splitRun' = [pc |-> "returned", task |-> t, host |-> host,
                        sendErr |-> sendErr, result |-> run(t, host)]
        /\ UNCHANGED <<mvccVars, latchVars, workerVars>>

SplitNext == SplitCheckRun

SpecSplit == Init /\ [][SplitNext]_vars

(***************************************************************************)
(* Properties of the transactional handlers.                               *)
(***************************************************************************)
WritesOf(ws, key) == {w \in ws : w.key = key}

VisibleWrites(ws, key, ts) == {w \in ws : w.key = key /\ w.commitTS <= ts}

\* The response of a read that sees no lock: the newest visible version.
IsNewestVisible(ws, key, ts, resp) ==
    /\ resp.Error = Nil
    /\ IF VisibleWrites(ws, key, ts) = {}
       THEN resp.Value = NoValue
       ELSE \E w \in VisibleWrites(ws, key, ts) :
                /\ \A x \in VisibleWrites(ws, key, ts) : x.commitTS <= w.commitTS
                /\ resp.Value = w.value

IsLockedError(e, key, lock) ==
    /\ e # Nil
    /\ e.Locked = LockInfo(key, lock.primary, lock.startTS, lock.ttl)
    /\ e.Retryable = ""
    /\ e.Abort = ""

IsAbortError(e) ==
    /\ e # Nil
    /\ e.Locked = NoLockInfo
    /\ e.Retryable = ""
    /\ e.Abort # ""

\* C1: Get(k, readTS) answers Locked (with the lock's key, primary, startTS
\* and ttl) when k carries a lock with startTS <= readTS; otherwise it answers
\* the value of the newest write record of k with commitTS <= readTS, NotFound
\* when there is none.  On a key whose only history is a transaction
\* (startTS, commitTS): NotFound below startTS, Locked from startTS on while
\* the lock is outstanding, the value from commitTS on after the commit.
C1_GetVisibility ==
    last.op = "get" =>
        LET k == last.key
            ts == last.version
        IN  /\ IF lockStore[k] # NoLock /\ lockStore[k].startTS <= ts
               THEN /\ IsLockedError(last.resp.Error, k, lockStore[k])
                    /\ last.resp.Value = NoValue
               ELSE IsNewestVisible(writeStore, k, ts, last.resp)
            /\ (lockStore[k] # NoLock /\ WritesOf(writeStore, k) = {}) =>
                   IF ts < lockStore[k].startTS
                   THEN last.resp = GetResponse(Nil, NoValue)
                   ELSE last.resp.Error # Nil /\ last.resp.Error.Locked # NoLockInfo
            /\ (lockStore[k] = NoLock /\ Cardinality(WritesOf(writeStore, k)) = 1) =>
                   \A w \in WritesOf(writeStore, k) :
                       last.resp = GetResponse(Nil, IF ts < w.commitTS
                                                    THEN NoValue ELSE w.value)

\* A committed value is read at or after its commitTS.
C1_Witness ==
    /\ last.op = "get"
    /\ lockStore[last.key] = NoLock
    /\ \E w \in writeStore : /\ w.key = last.key
                             /\ w.op = "Put"
                             /\ w.commitTS <= last.version
    /\ last.resp.Value \in Values

\* A mutation of the prewrite batch in `last` is blocked by another
\* transaction's lock, resp. by a committed write at or after startTS.
LockConflict(ls, key, startTS) == ls[key] # NoLock /\ ls[key].startTS # startTS

WriteConflict(ws, key, startTS) ==
    \E w \in ws : w.key = key /\ w.commitTS >= startTS

\* C2: a prewrite of a key locked by a transaction with another startTS
\* reports Locked (carrying that lock) for the key and leaves the key's lock
\* and every write record as they were.
C2_PrewriteLocked ==
    [][last'.op = "prewrite" =>
         \A i \in 1..Len(last'.muts) :
             LET k == last'.muts[i].key
             IN  LockConflict(lockStore, k, last'.startTS) =>
                     /\ \E j \in 1..Len(last'.resp.Errors) :
                            IsLockedError(last'.resp.Errors[j], k, lockStore[k])
                     /\ lockStore'[k] = lockStore[k]
                     /\ writeStore' = writeStore]_vars

C2_Witness ==
    /\ last.op = "prewrite"
    /\ \E i \in 1..Len(last.muts) :
           /\ LockConflict(lockStore, last.muts[i].key, last.startTS)
           /\ \E j \in 1..Len(last.resp.Errors) :
                  last.resp.Errors[j].Locked # NoLockInfo

\* C3: a prewrite mutation on a key with a write record whose commitTS >=
\* startTS fails and installs no lock; the response carries one error per
\* blocked mutation, and a key's lock changes only for a mutation of the batch
\* that met neither a lock of another transaction nor such a write record.
C3_WriteConflict ==
    [][last'.op = "prewrite" =>
         LET muts == last'.muts
             startTS == last'.startTS
             blocked == {i \in 1..Len(muts) :
                            \/ LockConflict(lockStore, muts[i].key, startTS)
                            \/ WriteConflict(writeStore, muts[i].key, startTS)}
         IN  /\ \A i \in 1..Len(muts) :
                    WriteConflict(writeStore, muts[i].key, startTS) =>
                        /\ lockStore'[muts[i].key] = lockStore[muts[i].key]
                        /\ Len(last'.resp.Errors) >= 1
             /\ Len(last'.resp.Errors) = Cardinality(blocked)
             /\ \A k \in Keys :
                    lockStore'[k] # lockStore[k] =>
                        /\ \E i \in 1..Len(muts) : muts[i].key = k
                        /\ ~LockConflict(lockStore, k, startTS)
                        /\ ~WriteConflict(writeStore, k, startTS)
                        /\ lockStore'[k] # NoLock
                        /\ lockStore'[k].startTS = startTS]_vars

C3_Witness ==
    /\ last.op = "prewrite"
    /\ Len(last.muts) = 2
    /\ \A i \in 1..Len(last.muts) :
           /\ lockStore[last.muts[i].key] = NoLock
           /\ WriteConflict(writeStore, last.muts[i].key, last.startTS)
    /\ Len(last.resp.Errors) = 2

AlreadyCommitted(ls, ws, key, startTS) ==
    /\ ~(ls[key] # NoLock /\ ls[key].startTS = startTS)
    /\ \E w \in ws : w.key = key /\ w.startTS = startTS

\* C4: a commit whose keys all have no lock of the transaction but a write
\* record with its startTS succeeds and changes neither store; and a commit
\* that succeeded, when repeated, succeeds again and changes nothing.
C4_CommitIdempotent ==
    [][last'.op = "commit" =>
         /\ (\A i \in 1..Len(last'.keys) :
                 AlreadyCommitted(lockStore, writeStore, last'.keys[i],
                                  last'.startTS)) =>
                /\ last'.resp.Error = Nil
                /\ lockStore' = lockStore
                /\ writeStore' = writeStore
         /\ last'.resp.Error = Nil =>
                LET again == Commit(lockStore', writeStore', last'.keys,
                                    last'.startTS, last'.commitTS)
                IN  /\ KvCommitResponse(again.err).Error = Nil
                    /\ again.ls = lockStore'
                    /\ again.ws = writeStore']_vars

C4_Witness ==
    /\ last.op = "commit"
    /\ last.resp.Error = Nil
    /\ \A i \in 1..Len(last.keys) :
           AlreadyCommitted(lockStore, writeStore, last.keys[i], last.startTS)
    /\ \E w \in writeStore : w.startTS = last.startTS /\ w.commitTS # last.commitTS

LockLost(ls, ws, key, startTS) ==
    /\ ~(ls[key] # NoLock /\ ls[key].startTS = startTS)
    /\ ~\E w \in ws : w.key = key /\ w.startTS = startTS

\* C5: a commit that names a key with neither a lock of the transaction nor a
\* write record with its startTS answers an Abort error and leaves that key's
\* write records as they were.
C5_CommitLockLost ==
    [][last'.op = "commit" =>
         \A i \in 1..Len(last'.keys) :
             LockLost(lockStore, writeStore, last'.keys[i], last'.startTS) =>
                 /\ IsAbortError(last'.resp.Error)
                 /\ WritesOf(writeStore', last'.keys[i])
                        = WritesOf(writeStore, last'.keys[i])]_vars

C5_Witness ==
    /\ last.op = "commit"
    /\ last.commitTS > last.startTS
    /\ Len(last.keys) = 1
    /\ LockLost(lockStore, writeStore, last.keys[1], last.startTS)
    /\ last.resp.Error # Nil
    /\ last.resp.Error.Abort # ""

HasLockOf(ls, key, startTS) == ls[key] # NoLock /\ ls[key].startTS = startTS

InBatch(keys, key) == \E i \in 1..Len(keys) : keys[i] = key

\* C6 as stated: after the rollback of a key locked at startTS, a read of the
\* key at any readTS >= startTS answers NotFound.
C6_RollbackNotFound ==
    [][last'.op = "rollback" =>
         \A k \in Keys :
             (InBatch(last'.keys, k) /\ HasLockOf(lockStore, k, last'.startTS)) =>
                 \A ts \in TS :
                     ts >= last'.startTS =>
                         KvGetResponse(lockStore', writeStore', k, ts)
                             = GetResponse(Nil, NoValue)]_vars

\* C6, amended: a rollback succeeds and never touches the write store; a key
\* without a lock of startTS (or not in the batch) keeps its lock state; a key
\* of the batch locked at startTS loses the lock, and a read of it at any
\* readTS then answers the newest write record with commitTS <= readTS,
\* NotFound when the key has none.
C6_Rollback ==
    [][last'.op = "rollback" =>
         /\ last'.resp.Error = Nil
         /\ writeStore' = writeStore
         /\ \A k \in Keys :
                IF InBatch(last'.keys, k) /\ HasLockOf(lockStore, k, last'.startTS)
                THEN /\ lockStore'[k] = NoLock
                     /\ \A ts \in TS :
                            /\ IsNewestVisible(writeStore, k, ts,
                                   KvGetResponse(lockStore', writeStore', k, ts))
                            /\ VisibleWrites(writeStore, k, ts) = {} =>
                                   KvGetResponse(lockStore', writeStore', k, ts)
                                       = GetResponse(Nil, NoValue)
                ELSE lockStore'[k] = lockStore[k]]_vars

\* A rollback has just removed a lock from a key that has a committed version.
C6_Witness ==
    /\ last.op = "rollback"
    /\ last.resp.Error = Nil
    /\ \E k \in Keys :
           /\ InBatch(last.keys, k)
           /\ lockStore[k] = NoLock
           /\ \E w \in writeStore : w.key = k /\ w.commitTS < last.startTS
           /\ ~\E w \in writeStore : w.key = k /\ w.startTS = last.startTS

\* C7: every write record has commitTS > startTS, whatever calls were made,
\* a Commit with commitTS <= startTS on a locked key included.
C7_CommitAfterStart ==
    \A w \in writeStore : w.commitTS > w.startTS

\* A commit with commitTS <= startTS was refused on a key the transaction
\* holds locked.
C7_Witness ==
    /\ last.op = "commit"
    /\ last.commitTS <= last.startTS
    /\ \E i \in 1..Len(last.keys) :
           HasLockOf(lockStore, last.keys[i], last.startTS)
    /\ last.resp.Error # Nil

(***************************************************************************)
(* Properties of the latches.                                              *)
(***************************************************************************)
\* The batches whose mutation of key went through without an error.
Winners(key) ==
    {b \in Batches :
        /\ batch[b].pc # "idle"
        /\ \E i \in 1..Len(batch[b].errs) :
               batch[b].muts[i].key = key /\ batch[b].errs[i] = Nil}

\* The batches inside their latched section on key.
InSection(key) ==
    {b \in Batches :
        /\ batch[b].pc \in {"check", "install", "release"}
        /\ batch[b].muts[batch[b].i].key = key}

\* lock is, field by field, the lock a mutation of batch b on key installs.
LockOfBatch(lock, key, b) ==
    \E i \in 1..Len(batch[b].muts) :
        /\ batch[b].muts[i].key = key
        /\ lock = MvccLock(PrimaryOf(batch[b].muts), StartTSOf(b), batch[b].ttl,
                           batch[b].muts[i].op, batch[b].muts[i].value)

\* C8: with concurrent prewrite batches of different transactions, at most
\* one batch is inside the latched section of a key, at most one batch wins a
\* key, the key's lock is entirely that batch's lock, and every other batch
\* that has tried the key was answered with the winner's lock.
C8_LatchSerialization ==
    \A k \in Keys :
        /\ Cardinality(InSection(k)) <= 1
        /\ Cardinality(Winners(k)) <= 1
        /\ lockStore[k] # NoLock =>
               \E b \in Batches : Winners(k) = {b} /\ LockOfBatch(lockStore[k], k, b)
        /\ Winners(k) # {} => lockStore[k] # NoLock
        /\ \A b \in Batches :
               batch[b].pc # "idle" =>
                   \A i \in 1..Len(batch[b].errs) :
                       (batch[b].muts[i].key = k /\ batch[b].errs[i] # Nil) =>
                           /\ Winners(k) # {b}
                           /\ batch[b].errs[i] = ErrLocked(k, lockStore[k])

\* Every batch is done, two of them wrote the same key, one of them won it.
C8_Witness ==
    /\ \A b \in Batches : batch[b].pc = "done"
    /\ \E k \in Keys, b1 \in Batches, b2 \in Batches :
           /\ b1 # b2
           /\ Winners(k) = {b1}
           /\ \E i \in 1..Len(batch[b2].muts) :
                  batch[b2].muts[i].key = k /\ batch[b2].errs[i] # Nil
           /\ Len(batch[b2].muts) = 2

(***************************************************************************)
(* Properties of the worker.                                               *)
(***************************************************************************)
IsCall(e) == e.ev = "call"

\* C9: the tasks of a worker reach runner.run in the order they were sent,
\* and a call of runner.run has returned before the next one is made: calls
\* and returns alternate, each return belongs to the call before it, and the
\* sequence numbers of the tasks called grow.
C9_FifoOrder ==
    \A w \in Workers :
        LET ev == events[w]
        IN  /\ \A i \in 1..Len(ev) :
                   /\ (i % 2 = 1) => IsCall(ev[i])
                   /\ (i % 2 = 0) => (~IsCall(ev[i]) /\ ev[i].task = ev[i - 1].task)
            /\ \A i \in 1..Len(ev), j \in 1..Len(ev) :
                   (IsCall(ev[i]) /\ IsCall(ev[j])
                        /\ ev[i].task.data < ev[j].task.data) =>
                       /\ i < j
                       /\ ev[i + 1] = [ev |-> "return", task |-> ev[i].task]
                       /\ i + 1 < j
            /\ \A i \in 1..Len(ev) : ev[i].task = sent[w][ev[i].task.data]

\* Two tasks were run, the second while a third waits.
C9_Witness ==
    \E w \in Workers :
        /\ Len(events[w]) = 3
        /\ consumer[w].pc = "run"
        /\ queue[w] # <<>>

\* The positions of the stop tasks among the tasks sent to w.
StopsSent(w) == {i \in 1..Len(sent[w]) : sent[w][i].tp = taskTypeStop}

Received(w) == Len(sent[w]) - Len(queue[w])

\* C10: when the consumer has received a stop task it has left its loop for
\* good (it receives nothing more), and no task sent after a stop task is
\* ever handed to runner.run.
C10_StopTerminates ==
    \A w \in Workers :
        /\ \A i \in StopsSent(w) :
               Received(w) >= i => (consumer[w].pc = "exited" /\ Received(w) = i)
        /\ consumer[w].pc = "exited" => Received(w) \in StopsSent(w)
        /\ \A e \in 1..Len(events[w]) :
               \A i \in StopsSent(w) : events[w][e].task.data < i

\* The consumer has left on a stop task and a later task stays in the queue.
C10_Witness ==
    \E w \in Workers :
        /\ consumer[w].pc = "exited"
        /\ queue[w] # <<>>
        /\ events[w] # <<>>
        /\ \E i \in 1..Len(queue[w]) : queue[w][i].tp # taskTypeStop

(***************************************************************************)
(* Properties of the request boundary.                                     *)
(***************************************************************************)
\* C11: a prewrite request of 6 MiB or more is answered with the
\* RaftEntryTooLarge region error and does not reach the store: no lock is
\* installed or changed.
C11_OversizedRejected ==
    [][(last'.op = "prewrite" /\ last'.size >= requestMaxSize) =>
           /\ last'.resp.RegionError = checkRequest(Nil, last'.size)
           /\ last'.resp.RegionError = RaftEntryTooLarge
           /\ lockStore' = lockStore]_vars

\* The mutations of a prewrite batch that meet a conflict in the stores the
\* call starts from, and the rank of a failed mutation among the failed ones.
FailedMutations(ls, ws, muts, startTS) ==
    {i \in 1..Len(muts) : \/ LockConflict(ls, muts[i].key, startTS)
                          \/ WriteConflict(ws, muts[i].key, startTS)}

RankIn(S, i) == Cardinality({j \in S : j <= i})

PopulatedFields(e) ==
    {f \in {"Locked", "Retryable", "Abort"} :
        IF f = "Locked" THEN e.Locked # NoLockInfo
        ELSE IF f = "Retryable" THEN e.Retryable # ""
        ELSE e.Abort # ""}

ReportsAsOneKind(e, err) ==
    /\ e # Nil
    /\ Cardinality(PopulatedFields(e)) = 1
    /\ ("Locked" \in PopulatedFields(e)) <=> (err.type = "ErrLocked")
    /\ err.type = "ErrLocked" =>
           e.Locked = LockInfo(err.Key, err.Primary, err.StartTS, err.TTL)
    /\ ("Retryable" \in PopulatedFields(e)) <=> (err.type = "ErrRetryable")
    /\ ("Abort" \in PopulatedFields(e))
           <=> (err.type \notin {"ErrLocked", "ErrRetryable"})

\* The errors of a prewrite result, without the nil slots.
RECURSIVE NonNil(_)
NonNil(errs) ==
    IF errs = <<>> THEN <<>>
    ELSE (IF Head(errs) = Nil THEN <<>> ELSE <<Head(errs)>>) \o NonNil(Tail(errs))

\* C13: each error the store returns to Get, Prewrite or Commit reaches the
\* caller as a KeyError with exactly one of Locked, Retryable and Abort
\* populated: Locked exactly for a lock error, with the lock's key, primary,
\* startTS and ttl; Retryable exactly for a retryable error; Abort exactly for
\* any other error.
C13_OneKind ==
    [][/\ last'.op = "get" =>
              \A err \in {Get(lockStore, writeStore, last'.key,
                              last'.version).err} :
                  err # Nil => ReportsAsOneKind(last'.resp.Error, err)
       /\ last'.op = "prewrite" =>
              \A errs \in {NonNil(Prewrite(lockStore, writeStore, last'.muts,
                                           last'.primary, last'.startTS,
                                           last'.ttl).errs)} :
                  /\ Len(last'.resp.Errors) = Len(errs)
                  /\ \A j \in 1..Len(errs) :
                         ReportsAsOneKind(last'.resp.Errors[j], errs[j])
       /\ last'.op = "commit" =>
              \A err \in {Commit(lockStore, writeStore, last'.keys,
                                 last'.startTS, last'.commitTS).err} :
                  err # Nil => ReportsAsOneKind(last'.resp.Error, err)]_vars

\* One prewrite answered with both a Locked and a Retryable error.
C13_Witness ==
    /\ last.op = "prewrite"
    /\ Len(last.resp.Errors) = 2
    /\ PopulatedFields(last.resp.Errors[1]) = {"Locked"}
    /\ PopulatedFields(last.resp.Errors[2]) = {"Retryable"}

\* A commit answered with an Abort error.
C13_WitnessAbort ==
    /\ last.op = "commit"
    /\ last.resp.Error # Nil
    /\ PopulatedFields(last.resp.Error) = {"Abort"}

\* A KvPair that carries the Get rule's outcome for key at version ts: the
\* Locked error alone, or the key with the newest visible value and no error.
IsGetOutcome(kv, key, ts) ==
    IF lockStore[key] # NoLock /\ lockStore[key].startTS <= ts
    THEN /\ IsLockedError(kv.Error, key, lockStore[key])
         /\ kv.Value = NoValue
    ELSE /\ kv.Key = key
         /\ IsNewestVisible(writeStore, key, ts, kv)

C14_WitnessScan ==
    /\ last.op = "scan"
    /\ Len(last.resp.Pairs) = 2
    /\ \E i \in 1..2 : last.resp.Pairs[i].Error # Nil
    /\ \E i \in 1..2 : last.resp.Pairs[i].Value \in Values

\* The keys a request names.
RequestKeys(req) ==
    IF req.op = "get" THEN {req.key}
    ELSE IF req.op = "scan" THEN {req.startKey}
    ELSE IF req.op = "prewrite"
    THEN {req.muts[i].key : i \in 1..Len(req.muts)}
    ELSE IF req.op \in {"batchget", "commit", "rollback"}
    THEN {req.keys[i] : i \in 1..Len(req.keys)}
    ELSE {}

InvariantViolation == [type |-> "InvariantViolation"]

\* C15: a request that names a key outside the range of the serving region is
\* answered with the InvariantViolation error; the handler does not panic and
\* the operation is not performed, so both stores stay as they were.
C15_OutOfRegionRejected ==
    [][/\ last'.op # "panic"
       /\ (\E k \in RequestKeys(last') : ~InRegionRange(k)) =>
              /\ last'.resp.RegionError = InvariantViolation
              /\ lockStore' = lockStore
              /\ writeStore' = writeStore]_vars

(***************************************************************************)
(* Properties of the split-check runner.                                   *)
(***************************************************************************)
\* The region of the run in splitRun and the answer of the scan over its range.
RunRegion == splitRun.task.data.region

RunScan ==
    scanSplitKeys(splitRun.host, RunRegion, EncStartKey(RunRegion),
                  EncEndKey(RunRegion))

\* The candidate keys the check of the run yields, still encoded when they
\* come from the estimate.
Candidates ==
    IF splitRun.host.policy = CheckPolicy_APPROXIMATE
           /\ splitRun.host.approximate.err = Nil
    THEN splitRun.host.approximate.keys
    ELSE RunScan.keys

EstimateFailed ==
    /\ ~splitRun.host.skip
    /\ splitRun.host.policy = CheckPolicy_APPROXIMATE
    /\ splitRun.host.approximate.err # Nil

\* C16: a call of run hands at most one message to the router, and one
\* exactly when the host does not skip and the check yields candidate keys;
\* the message is a split-region message for the region of the task, with the
\* region's epoch and as many keys as there are candidates, in their order.
\* A send that fails is not repeated.
C16_SingleSplitMessage ==
    splitRun.pc = "returned" =>
        LET sends == splitRun.result.sends
        IN  /\ Len(sends) <= 1
            /\ (Len(sends) = 1) <=> (~splitRun.host.skip /\ Candidates # <<>>)
            /\ Len(sends) = 1 =>
                   /\ sends[1].regionId = RunRegion.Id
                   /\ sends[1].msg.Type = MsgTypeSplitRegion
                   /\ sends[1].msg.RegionID = RunRegion.Id
                   /\ sends[1].msg.Data.RegionEpoch = RunRegion.RegionEpoch
                   /\ Len(sends[1].msg.Data.SplitKeys) = Len(Candidates)
                   /\ \A i \in 1..Len(Candidates) :
                          sends[1].msg.Data.SplitKeys[i].key = Candidates[i].key

\* A message with two keys whose send failed.
C16_Witness ==
    /\ splitRun.pc = "returned"
    /\ splitRun.sendErr # Nil
    /\ Len(splitRun.result.sends) = 1
    /\ Len(splitRun.result.sends[1].msg.Data.SplitKeys) = 2

WaitsFor(b, c) ==
    /\ b # c
    /\ batch[b].pc = "latching"
    /\ latches[batch[b].hashVals[batch[b].n + 1]] = c

RECURSIVE WaitChain(_, _, _)
WaitChain(b, c, n) ==
    \/ WaitsFor(b, c)
    \/ n > 0 /\ \E d \in Batches : WaitsFor(b, d) /\ WaitChain(d, c, n - 1)

NoCircularWait == \A b \in Batches : ~WaitChain(b, b, Cardinality(Batches))

\* The latches a call holds are the first n of its sorted hash values.
HeldInOrder ==
    \A b \in Batches :
        batch[b].pc \in {"latching", "mutating", "unlatching"} =>
            /\ \A i \in 1..(Len(batch[b].hashVals) - 1) :
                   KeyRank[batch[b].hashVals[i]] < KeyRank[batch[b].hashVals[i + 1]]
            /\ \A h \in Keys :
                   (latches[h] = b) <=>
                       \E i \in 1..batch[b].n : batch[b].hashVals[i] = h

\* C19: concurrent batched mutation calls over overlapping keys take their
\* latches in ascending order of the hash values, no circle of calls each
\* waiting for a latch of the next is ever reached, and every call that has
\* begun gets all its latches, mutates and ends holding no latch.
C19_NoLatchDeadlock ==
    /\ [](NoCircularWait /\ HeldInOrder)
    /\ \A b \in Batches :
           (batch[b].pc = "latching") ~>
               (batch[b].pc = "finished" /\ \A h \in Keys : latches[h] # b)

\* A call holding one latch waits for a second one that another call holds.
C19_Witness ==
    \E b \in Batches, c \in Batches :
        /\ WaitsFor(b, c)
        /\ batch[b].n = 1
        /\ batch[b].op # batch[c].op

(***************************************************************************)
(* Properties of the shutdown barrier.                                     *)
(***************************************************************************)
Running(w) == consumer[w].pc \in {"recv", "run"}

\* Every worker that was started has been sent a stop task.
AllStartedStopped ==
    \A w \in Workers : consumer[w].pc # "new" => StopsSent(w) # {}

\* C20: the wait group counts the consumer loops that are running: start adds
\* one for the consumer it spawns, a consumer takes one off when it leaves on
\* a stop task and at no other time, so the counter is not zero while a loop
\* runs.  With consumers that are scheduled and calls of run that return, a
\* running consumer that has been sent a stop task leaves its loop, and
\* while every started worker has been sent a stop task the counter comes
\* back to zero.
C20_ShutdownBarrier ==
    /\ [](wg = Cardinality({w \in Workers : Running(w)}))
    /\ [][wg' # wg =>
             \E w \in Workers :
                 /\ \A v \in Workers \ {w} : consumer'[v] = consumer[v]
                 /\ \/ /\ consumer[w].pc = "new"
                       /\ consumer'[w].pc = "recv"
                       /\ wg' = wg + 1
                    \/ /\ consumer[w].pc = "recv"
                       /\ consumer'[w].pc = "exited"
                       /\ Head(queue[w]).tp = taskTypeStop
                       /\ wg' = wg - 1]_vars
    /\ \A w \in Workers :
           (Running(w) /\ StopsSent(w) # {}) ~> (consumer[w].pc = "exited")
    /\ AllStartedStopped ~> (wg = 0 \/ ~AllStartedStopped)

\* Both workers were started, ran a task, were stopped, and the counter is
\* back at zero.
C20_Witness ==
    /\ wg = 0
    /\ \A w \in Workers :
           /\ consumer[w].pc = "exited"
           /\ events[w] # <<>>

(***************************************************************************)
(* Properties of the delivery of tasks.                                    *)
(***************************************************************************)
\* The tasks runner.run was called with, in the order of the calls.
CalledTasks(w) ==
    LET calls == SelectSeq(events[w], IsCall)
    IN  [i \in 1..Len(calls) |-> calls[i].task]

\* The position of the first stop task sent to w, past the end if none.
FirstStop(w) ==
    IF StopsSent(w) = {} THEN Len(sent[w]) + 1
    ELSE CHOOSE i \in StopsSent(w) : \A j \in StopsSent(w) : i <= j

\* C21: the tasks runner.run has been called with are the first tasks sent to
\* the worker, one call each and in their order, all of them from before the
\* first stop task and none of kind stop; a task that left the queue went to
\* runner.run or was the stop task the consumer left on, and the queue holds
\* the tasks not yet received.  When the consumer is scheduled and the calls
\* of run return, every task sent before the first stop task to a started
\* worker gets its call.
C21_ExactlyOnce ==
    /\ [](\A w \in Workers :
              \A called \in {CalledTasks(w)} :
                  /\ Len(called) < FirstStop(w)
                  /\ called = SubSeq(sent[w], 1, Len(called))
                  /\ \A i \in 1..Len(called) : called[i].tp # taskTypeStop
                  /\ Received(w) = Len(called)
                         + (IF consumer[w].pc = "exited" THEN 1 ELSE 0)
                  /\ queue[w] = SubSeq(sent[w], Received(w) + 1, Len(sent[w]))
                  /\ consumer[w].pc = "exited" =>
                         Len(called) = FirstStop(w) - 1)
    /\ \A w \in Workers : \A i \in 1..MaxTasks :
           (Running(w) /\ i <= Len(sent[w]) /\ i < FirstStop(w))
               ~> (Len(CalledTasks(w)) >= i)

\* Two tasks and a stop task were sent; both tasks were run, then the consumer
\* left.
C21_Witness ==
    \E w \in Workers :
        /\ Len(sent[w]) = 3
        /\ FirstStop(w) = 3
        /\ consumer[w].pc = "exited"
        /\ Len(CalledTasks(w)) = 2
        /\ Len(events[w]) = 4

(***************************************************************************)
(* Properties of the bounded queue.                                        *)
(***************************************************************************)
\* The number of tasks the consumer of w has taken off the queue: one per
\* call of runner.run, and the stop task it left on.
Taken(w) ==
    Len(CalledTasks(w)) + (IF consumer[w].pc = "exited" THEN 1 ELSE 0)

====
